---- MODULE Spec2Model ----
(***************************************************************************)
(* Task-management backend of farhan7479/user-auth: the Express handlers   *)
(* of auth.controller.ts and task.controller.ts, the authenticate guard,   *)
(* the errorHandler boundary, the jwt helpers and the Prisma store         *)
(* (User / Task tables with their constraints), and the browser's axios    *)
(* interceptors with the redux auth slice.                                 *)
(*                                                                         *)
(* A handler runs synchronously up to each `await prisma...`; the store    *)
(* call is one atomic step.  Handlers with one store call are one action;  *)
(* register, updateTask and deleteTask make two store calls and are two    *)
(* actions with the handler's locals kept in `pending` between them.       *)
(***************************************************************************)
EXTENDS Integers, Sequences, FiniteSets, Bags, TLC

VARIABLES
    users,      \* User table: set of rows [id, email, password, name, createdAt]
    tasks,      \* Task table: set of rows [id, title, description, status, createdAt, userId]
    nextUserId, \* number of uuid()s drawn for users so far
    nextTaskId, \* number of uuid()s drawn for tasks so far
    now,        \* server clock
    env,        \* process.env
    pending,    \* bag of handlers suspended between their two store calls
    resp,       \* the response sent by the last step (NoResp when the step sent none)
    client      \* the browser: redux auth state, localStorage, the request in progress

vars == <<users, tasks, nextUserId, nextTaskId, now, env, pending, resp, client>>

(***************************************************************************)
(* Bounds of the model.                                                    *)
(***************************************************************************)
MaxTime == 1        \* the clock runs 0..MaxTime
MaxInflight == 2    \* handlers suspended between two store calls
MaxTasks == 2       \* task rows ever created
MaxUsers == 2       \* user rows ever created
MaxClientTime == 2  \* the clock of the browser scenarios runs 0..MaxClientTime
MaxRefreshes == 3   \* refreshTokens dispatched for one request

(***************************************************************************)
(* JavaScript values.                                                      *)
(***************************************************************************)
UNDEF == "undefined"
NULL == "null"
Falsy(v) == v = UNDEF \/ v = NULL \/ v = ""

Emails == {"a@x", "b@x"}
Passwords == {"pw1", "pw2"}
Salts == {"s1"}

uuid(n) == "id" \o ToString(n)

(***************************************************************************)
(* bcrypt: hash(password, salt) embeds the salt; compare re-hashes the     *)
(* candidate with the salt found in the stored hash.                       *)
(***************************************************************************)
BcryptHash(password, salt) == "$2b$10$" \o salt \o "$" \o password
\* Variant: the arguments of bcrypt.compare exchanged.
BcryptCompareSwapped(password, hashed) == \E s \in Salts : BcryptHash(hashed, s) = password
BcryptCompare(password, hashed) == \E s \in Salts : BcryptHash(password, s) = hashed

(***************************************************************************)
(* process.env.  TestEnv is the configuration of the integration suite;    *)
(* expiries are in clock ticks.                                            *)
(***************************************************************************)
TestEnv ==
    [ JWT_SECRET             |-> "test-jwt-secret-key-for-integration-testing",
      JWT_REFRESH_SECRET     |-> "test-refresh-token-secret-for-integration-testing",
      JWT_EXPIRES_IN         |-> 1,
      JWT_REFRESH_EXPIRES_IN |-> 2,
      NODE_ENV               |-> "test" ]

(***************************************************************************)
(* jsonwebtoken.  A token string is determined by its payload, the secret  *)
(* it was signed with, and iat/exp.  raw = "jwt" is a well-formed JWT,     *)
(* "garbage" any other non-empty text, "" the empty string.                *)
(***************************************************************************)
TokenPayload(user) == [userId |-> user.id, email |-> user.email]

JwtSign(payload, secret, expiresIn, t) ==
    [ raw |-> "jwt", sig |-> secret, userId |-> payload.userId,
      email |-> payload.email, iat |-> t, exp |-> t + expiresIn ]

EmptyToken   == [raw |-> "", sig |-> "", userId |-> "", email |-> "", iat |-> 0, exp |-> 0]
GarbageToken == [raw |-> "garbage", sig |-> "", userId |-> "", email |-> "", iat |-> 0, exp |-> 0]

\* jwt.verify: the thrown error's class, or "ok".
\* TokenExpiredError is a subclass of JsonWebTokenError.
JwtVerify(token, secret, t) ==
    IF Falsy(secret) THEN [ok |-> FALSE, error |-> "JsonWebTokenError"]
    ELSE IF token.raw # "jwt" THEN [ok |-> FALSE, error |-> "JsonWebTokenError"]
    ELSE IF token.sig # secret THEN [ok |-> FALSE, error |-> "JsonWebTokenError"]
    ELSE IF t >= token.exp THEN [ok |-> FALSE, error |-> "TokenExpiredError"]
    ELSE [ok |-> TRUE, error |-> ""]

IsJsonWebTokenError(e) == e.kind \in {"JsonWebTokenError", "TokenExpiredError"}
IsTokenExpiredError(e) == e.kind = "TokenExpiredError"

(***************************************************************************)
(* Errors and the errorHandler boundary.                                   *)
(***************************************************************************)
ApiError(statusCode, message) ==
    [kind |-> "ApiError", statusCode |-> statusCode, message |-> message]
PrismaKnownError(message) ==
    [kind |-> "PrismaClientKnownRequestError", statusCode |-> 0, message |-> message]
JwtError(kind) ==
    [kind |-> kind, statusCode |-> 0, message |-> "jwt error"]
PlainError(message) ==
    [kind |-> "Error", statusCode |-> 0, message |-> message]

UniqueViolation == PrismaKnownError("Unique constraint failed on the fields: email")
ForeignKeyViolation == PrismaKnownError("Foreign key constraint failed on the field: Task_userId_fkey")
RecordNotFound == PrismaKnownError("Record to update or delete does not exist.")

NoData == [none |-> TRUE]
NullData == [null |-> TRUE]

\* createErrorResponse: `error` is included only when truthy.
createErrorResponse(statusCode, message, error) ==
    [ status |-> statusCode, success |-> FALSE, message |-> message,
      error |-> IF Falsy(error) THEN UNDEF ELSE error, data |-> NoData ]

errorHandler(err, e) ==
    IF err.kind = "ApiError"
    THEN createErrorResponse(err.statusCode, err.message, UNDEF)
    ELSE IF err.kind = "PrismaClientKnownRequestError"
    THEN createErrorResponse(400, "Database error occurred", err.message)
    ELSE IF IsJsonWebTokenError(err)
    THEN createErrorResponse(401, "Invalid token", UNDEF)
    ELSE IF IsTokenExpiredError(err)
    THEN createErrorResponse(401, "Token expired", UNDEF)
    ELSE createErrorResponse(500, "Internal Server Error",
             IF e.NODE_ENV = "development" THEN err.message ELSE UNDEF)

Success(statusCode, message, data) ==
    [ status |-> statusCode, success |-> TRUE, message |-> message,
      error |-> UNDEF, data |-> data ]

(***************************************************************************)
(* Prisma store: User table.  email is @unique, id is @id @default(uuid()).*)
(***************************************************************************)
UserFindByEmail(us, email) == {u \in us : u.email = email}
UserFindById(us, id) == {u \in us : u.id = id}

\* Variant: a User table without the unique index on email.
UserCreateNoUnique(us, data, id, t) ==
    LET row == [ id |-> id, email |-> data.email, password |-> data.password,
                 name |-> data.name, createdAt |-> t ]
    IN [ok |-> TRUE, error |-> UniqueViolation, rows |-> us \cup {row}, row |-> row]

\* prisma.user.create: the unique index on email rejects a second row.
UserCreate(us, data, id, t) ==
    IF \E u \in us : u.email = data.email
    THEN [ok |-> FALSE, error |-> UniqueViolation, rows |-> us, row |-> data]
    ELSE LET row == [ id |-> id, email |-> data.email, password |-> data.password,
                      name |-> data.name, createdAt |-> t ]
         IN [ok |-> TRUE, error |-> UniqueViolation, rows |-> us \cup {row}, row |-> row]

\* Variant: no `select`, the whole row is returned.
UserSelectAll(u) == u

\* select: { id, email, name, createdAt }
UserSelect(u) == [id |-> u.id, email |-> u.email, name |-> u.name, createdAt |-> u.createdAt]

\* login's hand-built user object { id, email, name }
UserData(u) == [id |-> u.id, email |-> u.email, name |-> u.name]

(***************************************************************************)
(* utils/jwt.ts                                                            *)
(***************************************************************************)
generateAccessToken(payload, e, t) ==
    IF Falsy(e.JWT_SECRET)
    THEN [ok |-> FALSE, error |-> PlainError("JWT_SECRET is not defined in environment variables"),
          token |-> EmptyToken]
    ELSE [ok |-> TRUE, error |-> PlainError(""),
          token |-> JwtSign(payload, e.JWT_SECRET, e.JWT_EXPIRES_IN, t)]

generateRefreshToken(payload, e, t) ==
    IF Falsy(e.JWT_REFRESH_SECRET)
    THEN [ok |-> FALSE, error |-> PlainError("JWT_REFRESH_SECRET is not defined in environment variables"),
          token |-> EmptyToken]
    ELSE [ok |-> TRUE, error |-> PlainError(""),
          token |-> JwtSign(payload, e.JWT_REFRESH_SECRET, e.JWT_REFRESH_EXPIRES_IN, t)]

verifyRefreshToken(token, e, t) ==
    IF Falsy(e.JWT_REFRESH_SECRET)
    THEN [ok |-> FALSE, error |-> PlainError("JWT_REFRESH_SECRET is not defined in environment variables")]
    ELSE LET v == JwtVerify(token, e.JWT_REFRESH_SECRET, t)
         IN [ok |-> v.ok, error |-> JwtError(v.error)]

(***************************************************************************)
(* Requests.  An Authorization header is the text                          *)
(*     scheme, then for each word: a space and the word                    *)
(* so that split(' ') yields <<scheme>> \o words.                          *)
(***************************************************************************)
NoHeader == [present |-> FALSE, scheme |-> "", words |-> <<>>]
Header(scheme, words) == [present |-> TRUE, scheme |-> scheme, words |-> words]
Bearer(token) == Header("Bearer", <<token>>)

NoBody == [none |-> TRUE]
Req(op, header, id, body) == [op |-> op, header |-> header, id |-> id, body |-> body]

NoUser == [userId |-> UNDEF, email |-> UNDEF]
NoOut == [status |-> 0, success |-> FALSE, message |-> UNDEF, error |-> UNDEF, data |-> NoData]
NoResp == [req |-> Req("none", NoHeader, UNDEF, NoBody), user |-> NoUser, ran |-> FALSE, out |-> NoOut]

\* A response: the request it answers, the identity the guard attached to the
\* request, whether the route handler ran, and the JSON sent.
Reply(req, user, ran, out) == [req |-> req, user |-> user, ran |-> ran, out |-> out]

(***************************************************************************)
(* middleware/auth.middleware.ts                                           *)
(***************************************************************************)
StartsWithBearer(h) == h.present /\ h.scheme = "Bearer" /\ Len(h.words) >= 1

\* Variant: the token is decoded (jwt.decode) and not verified.
authenticateDecodeOnly(h, e, t) ==
    IF ~h.present \/ (h.scheme = "" /\ h.words = <<>>) \/ ~StartsWithBearer(h)
    THEN [ok |-> FALSE, user |-> NoUser,
          error |-> ApiError(401, "Authentication required. Please log in.")]
    ELSE LET token == h.words[1] IN
         IF Falsy(token.raw)
         THEN [ok |-> FALSE, user |-> NoUser,
               error |-> ApiError(401, "Authentication token missing")]
         ELSE IF token.raw = "jwt"
         THEN [ok |-> TRUE, user |-> [userId |-> token.userId, email |-> token.email],
               error |-> ApiError(0, "")]
         ELSE [ok |-> FALSE, user |-> NoUser, error |-> ApiError(401, "Invalid token")]

\* The catch block tests instanceof JsonWebTokenError first.
authenticate(h, e, t) ==
    IF ~h.present \/ (h.scheme = "" /\ h.words = <<>>) \/ ~StartsWithBearer(h)
    THEN [ok |-> FALSE, user |-> NoUser,
          error |-> ApiError(401, "Authentication required. Please log in.")]
    ELSE LET token == h.words[1] IN
         IF Falsy(token.raw)
         THEN [ok |-> FALSE, user |-> NoUser,
               error |-> ApiError(401, "Authentication token missing")]
         ELSE LET v == JwtVerify(token, e.JWT_SECRET, t) IN
              IF v.ok
              THEN [ok |-> TRUE, user |-> [userId |-> token.userId, email |-> token.email],
                    error |-> ApiError(0, "")]
              ELSE IF IsJsonWebTokenError(JwtError(v.error))
              THEN [ok |-> FALSE, user |-> NoUser, error |-> ApiError(401, "Invalid token")]
              ELSE IF IsTokenExpiredError(JwtError(v.error))
              THEN [ok |-> FALSE, user |-> NoUser, error |-> ApiError(401, "Token expired")]
              ELSE [ok |-> FALSE, user |-> NoUser, error |-> JwtError(v.error)]

\* The authenticate of src/unnamed/part_001 (generic AuthRequest): it reads
\* process.env.JWT_SECRET and throws ApiError(500) when it is not set.
authenticateGeneric(h, e, t) ==
    IF ~h.present \/ (h.scheme = "" /\ h.words = <<>>) \/ ~StartsWithBearer(h)
    THEN [ok |-> FALSE, user |-> NoUser,
          error |-> ApiError(401, "Authentication required. Please log in.")]
    ELSE LET token == h.words[1]
             secret == e.JWT_SECRET
         IN
         IF Falsy(token.raw)
         THEN [ok |-> FALSE, user |-> NoUser,
               error |-> ApiError(401, "Authentication token missing")]
         ELSE IF Falsy(secret)
         THEN [ok |-> FALSE, user |-> NoUser,
               error |-> ApiError(500, "Server configuration error")]
         ELSE LET v == JwtVerify(token, secret, t) IN
              IF v.ok
              THEN [ok |-> TRUE, user |-> [userId |-> token.userId, email |-> token.email],
                    error |-> ApiError(0, "")]
              ELSE IF IsJsonWebTokenError(JwtError(v.error))
              THEN [ok |-> FALSE, user |-> NoUser, error |-> ApiError(401, "Invalid token")]
              ELSE IF IsTokenExpiredError(JwtError(v.error))
              THEN [ok |-> FALSE, user |-> NoUser, error |-> ApiError(401, "Token expired")]
              ELSE [ok |-> FALSE, user |-> NoUser, error |-> JwtError(v.error)]

(***************************************************************************)
(* What clients can send.  A client holds the tokens some login or refresh *)
(* returned to it: a token for a stored user, signed at a time the user    *)
(* existed.  It can also send text that is no token, or a token signed     *)
(* with a secret of its own.                                               *)
(***************************************************************************)
UndefToken == [raw |-> UNDEF, sig |-> "", userId |-> "", email |-> "", iat |-> 0, exp |-> 0]

IssuedAccessTokens ==
    IF Falsy(env.JWT_SECRET) THEN {}
    ELSE UNION { { JwtSign(TokenPayload(u), env.JWT_SECRET, env.JWT_EXPIRES_IN, i)
                   : i \in u.createdAt..now } : u \in users }

IssuedRefreshTokens ==
    IF Falsy(env.JWT_REFRESH_SECRET) THEN {}
    ELSE UNION { { JwtSign(TokenPayload(u), env.JWT_REFRESH_SECRET, env.JWT_REFRESH_EXPIRES_IN, i)
                   : i \in u.createdAt..now } : u \in users }

ForgedTokens ==
    { JwtSign(TokenPayload(u), "attacker-secret", env.JWT_EXPIRES_IN, now) : u \in users }

JustIssued(tokens) == {k \in tokens : k.iat = now}

\* Tokens a refresh request may carry.
TokenInputs ==
    {UndefToken, EmptyToken, GarbageToken}
        \cup IssuedRefreshTokens \cup JustIssued(IssuedAccessTokens) \cup ForgedTokens

HeaderInputs ==
    { NoHeader,                                 \* no Authorization header
      Header("", <<>>),                         \* Authorization: (empty)
      Header("Bearer", <<>>),                   \* "Bearer"
      Header("Bearer", <<EmptyToken>>),         \* "Bearer "
      Header("Basic", <<GarbageToken>>),        \* another scheme
      Header("eyJhbGciOiJIUzI1NiJ9", <<>>),     \* a token without the prefix
      Bearer(GarbageToken) }                    \* "Bearer invalid-token"
        \cup { Bearer(k) : k \in IssuedAccessTokens }
        \cup { Bearer(k) : k \in JustIssued(IssuedRefreshTokens) \cup ForgedTokens }
        \cup { Header("Bearer", <<EmptyToken, k>>)        \* "Bearer  <token>"
               : k \in JustIssued(IssuedAccessTokens) }
        \cup { Header("Bearer", <<k, GarbageToken>>)      \* "Bearer <token> x"
               : k \in JustIssued(IssuedAccessTokens) }

RegisterBodies ==
    { [email |-> "a@x", password |-> "pw1", name |-> "Ann"],
      [email |-> "a@x", password |-> "pw2", name |-> UNDEF],
      [email |-> "b@x", password |-> "pw1", name |-> UNDEF],
      [email |-> UNDEF, password |-> "pw1", name |-> UNDEF],
      [email |-> "a@x", password |-> "",    name |-> UNDEF] }

LoginBodies ==
    [email : Emails, password : Passwords]
        \cup { [email |-> "",    password |-> "pw1"],
               [email |-> "a@x", password |-> UNDEF] }

RefreshBodies == [refreshToken : TokenInputs]

(***************************************************************************)
(* controllers/auth.controller.ts                                          *)
(***************************************************************************)
NoRow == [none |-> TRUE]

\* A handler suspended at its second `await prisma...`: the locals its
\* continuation reads.
Suspended(op, user, id, body, existing) ==
    [op |-> op, user |-> user, id |-> id, body |-> body, existing |-> existing]

\* What a step that suspends a handler sends: nothing yet.
Awaiting == NoOut

\* A server step sends r; the browser's state is not touched by it.
Send(r) == resp' = r /\ client' = client

\* Variant: the lookup by email comes before the validation of the body.
RegisterFindLookupFirst(body) ==
    LET req == Req("register", NoHeader, UNDEF, body) IN
    IF UserFindByEmail(users, body.email) # {}
    THEN /\ Send(Reply(req, NoUser, TRUE,
                 errorHandler(ApiError(409, "User with this email already exists"), env)))
         /\ UNCHANGED <<users, tasks, nextUserId, nextTaskId, now, env, pending>>
    ELSE IF Falsy(body.email) \/ Falsy(body.password)
    THEN /\ Send(Reply(req, NoUser, TRUE,
                 errorHandler(ApiError(400, "Email and password are required"), env)))
         /\ UNCHANGED <<users, tasks, nextUserId, nextTaskId, now, env, pending>>
    ELSE /\ BagCardinality(pending) < MaxInflight
         /\ pending' = pending (+) SetToBag({Suspended("register", NoUser, UNDEF, body, NoRow)})
         /\ Send(Reply(req, NoUser, TRUE, Awaiting))
         /\ UNCHANGED <<users, tasks, nextUserId, nextTaskId, now, env>>

\* register, up to and including `await prisma.user.findUnique`.
RegisterFind(body) ==
    LET req == Req("register", NoHeader, UNDEF, body) IN
    IF Falsy(body.email) \/ Falsy(body.password)
    THEN /\ Send(Reply(req, NoUser, TRUE,
                 errorHandler(ApiError(400, "Email and password are required"), env)))
         /\ UNCHANGED <<users, tasks, nextUserId, nextTaskId, now, env, pending>>
    ELSE IF UserFindByEmail(users, body.email) # {}
    THEN /\ Send(Reply(req, NoUser, TRUE,
                 errorHandler(ApiError(409, "User with this email already exists"), env)))
         /\ UNCHANGED <<users, tasks, nextUserId, nextTaskId, now, env, pending>>
    ELSE /\ BagCardinality(pending) < MaxInflight
         /\ pending' = pending (+) SetToBag({Suspended("register", NoUser, UNDEF, body, NoRow)})
         /\ Send(Reply(req, NoUser, TRUE, Awaiting))
         /\ UNCHANGED <<users, tasks, nextUserId, nextTaskId, now, env>>

\* register, from bcrypt.genSalt to the response.
RegisterCreate(p) ==
    /\ p.op = "register"
    /\ \E salt \in Salts :
         LET body == p.body
             req == Req("register", NoHeader, UNDEF, body)
             hashedPassword == BcryptHash(body.password, salt)
             created == UserCreate(users,
                            [ email |-> body.email, password |-> hashedPassword,
                              name |-> IF Falsy(body.name) THEN NULL ELSE body.name ],
                            uuid(nextUserId + 1), now)
         IN IF created.ok
            THEN /\ nextUserId < MaxUsers
                 /\ users' = created.rows
                 /\ nextUserId' = nextUserId + 1
                 /\ Send(Reply(req, NoUser, TRUE,
                         Success(201, "User registered successfully", UserSelect(created.row))))
            ELSE /\ Send(Reply(req, NoUser, TRUE, errorHandler(created.error, env)))
                 /\ UNCHANGED <<users, nextUserId>>
    /\ pending' = pending (-) SetToBag({p})
    /\ UNCHANGED <<tasks, nextTaskId, now, env>>

\* Variant: an unknown email is answered differently from a wrong password.
loginOutUserNotFound(us, body, e, t) ==
    IF Falsy(body.email) \/ Falsy(body.password)
    THEN errorHandler(ApiError(400, "Email and password are required"), e)
    ELSE LET found == UserFindByEmail(us, body.email) IN
         IF found = {}
         THEN errorHandler(ApiError(404, "User not found"), e)
         ELSE LET user == CHOOSE u \in found : TRUE IN
              IF ~BcryptCompare(body.password, user.password)
              THEN errorHandler(ApiError(401, "Invalid email or password"), e)
              ELSE LET access == generateAccessToken(TokenPayload(user), e, t)
                       refresh == generateRefreshToken(TokenPayload(user), e, t)
                   IN IF ~access.ok THEN errorHandler(access.error, e)
                      ELSE IF ~refresh.ok THEN errorHandler(refresh.error, e)
                      ELSE Success(200, "User logged in successfully",
                               [ user |-> UserData(user),
                                 accessToken |-> access.token,
                                 refreshToken |-> refresh.token ])

\* login: the JSON it sends for a body, given the User table.
loginOut(us, body, e, t) ==
    IF Falsy(body.email) \/ Falsy(body.password)
    THEN errorHandler(ApiError(400, "Email and password are required"), e)
    ELSE LET found == UserFindByEmail(us, body.email) IN
         IF found = {}
         THEN errorHandler(ApiError(401, "Invalid email or password"), e)
         ELSE LET user == CHOOSE u \in found : TRUE IN
              IF ~BcryptCompare(body.password, user.password)
              THEN errorHandler(ApiError(401, "Invalid email or password"), e)
              ELSE LET access == generateAccessToken(TokenPayload(user), e, t)
                       refresh == generateRefreshToken(TokenPayload(user), e, t)
                   IN IF ~access.ok THEN errorHandler(access.error, e)
                      ELSE IF ~refresh.ok THEN errorHandler(refresh.error, e)
                      ELSE Success(200, "User logged in successfully",
                               [ user |-> UserData(user),
                                 accessToken |-> access.token,
                                 refreshToken |-> refresh.token ])

Login(body) ==
    /\ Send(Reply(Req("login", NoHeader, UNDEF, body), NoUser, TRUE,
                  loginOut(users, body, env, now)))
    /\ UNCHANGED <<users, tasks, nextUserId, nextTaskId, now, env, pending>>

\* Variant: the tokens are issued from the verified claims, without looking
\* the user up.
refreshTokenOutNoLookup(us, body, e, t) ==
    IF Falsy(body.refreshToken.raw)
    THEN errorHandler(ApiError(400, "Refresh token is required"), e)
    ELSE LET decoded == verifyRefreshToken(body.refreshToken, e, t) IN
         IF ~decoded.ok THEN errorHandler(decoded.error, e)
         ELSE LET payload == [userId |-> body.refreshToken.userId,
                              email |-> body.refreshToken.email]
                  access == generateAccessToken(payload, e, t)
                  refresh == generateRefreshToken(payload, e, t)
              IN IF ~access.ok THEN errorHandler(access.error, e)
                 ELSE IF ~refresh.ok THEN errorHandler(refresh.error, e)
                 ELSE Success(200, "Tokens refreshed successfully",
                          [ accessToken |-> access.token,
                            refreshToken |-> refresh.token ])

refreshTokenOut(us, body, e, t) ==
    IF Falsy(body.refreshToken.raw)
    THEN errorHandler(ApiError(400, "Refresh token is required"), e)
    ELSE LET decoded == verifyRefreshToken(body.refreshToken, e, t) IN
         IF ~decoded.ok THEN errorHandler(decoded.error, e)
         ELSE LET found == UserFindById(us, body.refreshToken.userId) IN
              IF found = {}
              THEN errorHandler(ApiError(404, "User not found"), e)
              ELSE LET user == CHOOSE u \in found : TRUE
                       access == generateAccessToken(TokenPayload(user), e, t)
                       refresh == generateRefreshToken(TokenPayload(user), e, t)
                   IN IF ~access.ok THEN errorHandler(access.error, e)
                      ELSE IF ~refresh.ok THEN errorHandler(refresh.error, e)
                      ELSE Success(200, "Tokens refreshed successfully",
                               [ accessToken |-> access.token,
                                 refreshToken |-> refresh.token ])

\* Variant: a refresh token that has just been rotated is refused.
RefreshTokenRevoking(body) ==
    /\ Send(Reply(Req("refreshToken", NoHeader, UNDEF, body), NoUser, TRUE,
                  IF /\ resp.req.op = "refreshToken"
                     /\ resp.out.status = 200
                     /\ resp.req.body = body
                  THEN errorHandler(ApiError(401, "Invalid token"), env)
                  ELSE refreshTokenOut(users, body, env, now)))
    /\ UNCHANGED <<users, tasks, nextUserId, nextTaskId, now, env, pending>>

RefreshToken(body) ==
    /\ Send(Reply(Req("refreshToken", NoHeader, UNDEF, body), NoUser, TRUE,
                  refreshTokenOut(users, body, env, now)))
    /\ UNCHANGED <<users, tasks, nextUserId, nextTaskId, now, env, pending>>

getProfileOut(us, user, e) ==
    IF Falsy(user.userId)
    THEN errorHandler(ApiError(401, "Authentication required"), e)
    ELSE LET found == UserFindById(us, user.userId) IN
         IF found = {}
         THEN errorHandler(ApiError(404, "User not found"), e)
         ELSE Success(200, UNDEF, UserSelect(CHOOSE u \in found : TRUE))

\* A protected route: authenticate, then the handler on next().
GetProfile(header) ==
    LET req == Req("getProfile", header, UNDEF, NoBody)
        auth == authenticate(header, env, now)
    IN /\ IF ~auth.ok
          THEN Send(Reply(req, NoUser, FALSE, errorHandler(auth.error, env)))
          ELSE Send(Reply(req, auth.user, TRUE, getProfileOut(users, auth.user, env)))
       /\ UNCHANGED <<users, tasks, nextUserId, nextTaskId, now, env, pending>>

\* The profile route behind the authenticate of src/unnamed/part_001.
GetProfileGeneric(header) ==
    LET req == Req("getProfile", header, UNDEF, NoBody)
        auth == authenticateGeneric(header, env, now)
    IN /\ IF ~auth.ok
          THEN Send(Reply(req, NoUser, FALSE, errorHandler(auth.error, env)))
          ELSE Send(Reply(req, auth.user, TRUE, getProfileOut(users, auth.user, env)))
       /\ UNCHANGED <<users, tasks, nextUserId, nextTaskId, now, env, pending>>

Tick ==
    /\ now < MaxTime
    /\ now' = now + 1
    /\ Send(NoResp)
    /\ UNCHANGED <<users, tasks, nextUserId, nextTaskId, env, pending>>

(***************************************************************************)
(* Prisma store: Task table.  userId references User.id (onDelete:         *)
(* Cascade); status defaults to TODO, description to null.                 *)
(***************************************************************************)
taskId(n) == "task" \o ToString(n)

TaskFindById(ts, id) == {k \in ts : k.id = id}

\* Variant: findMany without the `where: { userId }` filter.
TaskFindManyUnfiltered(ts, userId) ==
    LET rows == ts
        n == Cardinality(rows)
    IN { s \in [1..n -> rows] :
           /\ \A i, j \in 1..n : i # j => s[i] # s[j]
           /\ \A i, j \in 1..n : i < j => s[i].createdAt >= s[j].createdAt }

\* findMany({ where: { userId }, orderBy: { createdAt: 'desc' } }): the
\* store may return rows of equal createdAt in any order.
TaskFindMany(ts, userId) ==
    LET rows == {k \in ts : k.userId = userId}
        n == Cardinality(rows)
    IN { s \in [1..n -> rows] :
           /\ \A i, j \in 1..n : i # j => s[i] # s[j]
           /\ \A i, j \in 1..n : i < j => s[i].createdAt >= s[j].createdAt }

\* prisma.task.create: the foreign key rejects a userId that is no User.id.
TaskCreate(ts, us, data, id, t) ==
    IF UserFindById(us, data.userId) = {}
    THEN [ok |-> FALSE, error |-> ForeignKeyViolation, rows |-> ts, row |-> NoRow]
    ELSE LET row == [ id |-> id, title |-> data.title,
                      description |-> IF data.description = UNDEF THEN NULL ELSE data.description,
                      status |-> data.status, createdAt |-> t, userId |-> data.userId ]
         IN [ok |-> TRUE, error |-> ForeignKeyViolation, rows |-> ts \cup {row}, row |-> row]

\* prisma.task.update({ where: { id }, data }): throws when the row is gone.
TaskUpdate(ts, id, data) ==
    LET found == TaskFindById(ts, id) IN
    IF found = {}
    THEN [ok |-> FALSE, error |-> RecordNotFound, rows |-> ts, row |-> NoRow]
    ELSE LET old == CHOOSE k \in found : TRUE
             row == [old EXCEPT !.title = data.title,
                                !.description = data.description,
                                !.status = data.status]
         IN [ok |-> TRUE, error |-> RecordNotFound, rows |-> (ts \ {old}) \cup {row}, row |-> row]

\* Variant: a soft delete, the row stays in the table.
TaskDeleteSoft(ts, id) ==
    LET found == TaskFindById(ts, id) IN
    IF found = {}
    THEN [ok |-> FALSE, error |-> RecordNotFound, rows |-> ts]
    ELSE [ok |-> TRUE, error |-> RecordNotFound, rows |-> ts]

\* prisma.task.delete({ where: { id } }): throws when the row is gone.
TaskDelete(ts, id) ==
    LET found == TaskFindById(ts, id) IN
    IF found = {}
    THEN [ok |-> FALSE, error |-> RecordNotFound, rows |-> ts]
    ELSE [ok |-> TRUE, error |-> RecordNotFound, rows |-> ts \ found]

(***************************************************************************)
(* controllers/task.controller.ts                                          *)
(***************************************************************************)
TaskBody(title, description, status, userId) ==
    [title |-> title, description |-> description, status |-> status, userId |-> userId]

\* A protected route refused by the guard: the handler does not run.
Refused(req, auth) == Reply(req, NoUser, FALSE, errorHandler(auth.error, env))

GetTasks(header) ==
    LET req == Req("getTasks", header, UNDEF, NoBody)
        auth == authenticate(header, env, now)
        userId == auth.user.userId
    IN /\ IF ~auth.ok THEN Send(Refused(req, auth))
          ELSE IF Falsy(userId)
          THEN Send(Reply(req, auth.user, TRUE,
                    errorHandler(ApiError(401, "Authentication required"), env)))
          ELSE \E found \in TaskFindMany(tasks, userId) :
                  Send(Reply(req, auth.user, TRUE, Success(200, UNDEF, found)))
       /\ UNCHANGED <<users, tasks, nextUserId, nextTaskId, now, env, pending>>

\* Variant: getTaskById without the ownership comparison.
getTaskByIdOutNoOwnerCheck(ts, userId, id, e) ==
    IF Falsy(userId)
    THEN errorHandler(ApiError(401, "Authentication required"), e)
    ELSE LET found == TaskFindById(ts, id) IN
         IF found = {}
         THEN errorHandler(ApiError(404, "Task not found"), e)
         ELSE Success(200, UNDEF, CHOOSE k \in found : TRUE)

\* getTaskById: the JSON it sends, given the Task table.
getTaskByIdOut(ts, userId, id, e) ==
    IF Falsy(userId)
    THEN errorHandler(ApiError(401, "Authentication required"), e)
    ELSE LET found == TaskFindById(ts, id) IN
         IF found = {}
         THEN errorHandler(ApiError(404, "Task not found"), e)
         ELSE LET task == CHOOSE k \in found : TRUE IN
              IF task.userId # userId
              THEN errorHandler(ApiError(403, "You do not have permission to access this task"), e)
              ELSE Success(200, UNDEF, task)

GetTaskById(header, id) ==
    LET req == Req("getTaskById", header, id, NoBody)
        auth == authenticate(header, env, now)
    IN /\ IF ~auth.ok THEN Send(Refused(req, auth))
          ELSE Send(Reply(req, auth.user, TRUE,
                          getTaskByIdOut(tasks, auth.user.userId, id, env)))
       /\ UNCHANGED <<users, tasks, nextUserId, nextTaskId, now, env, pending>>

\* Variant: the status of the request body is ignored.
createTaskDataStatusTodo(body, userId) ==
    [ title |-> body.title, description |-> body.description,
      status |-> "TODO", userId |-> userId ]

\* Variant: the request body is spread into `data`, its userId included.
createTaskDataFromBody(body, userId) ==
    [ title |-> body.title, description |-> body.description,
      status |-> IF Falsy(body.status) THEN "TODO" ELSE body.status,
      userId |-> IF body.userId # UNDEF THEN body.userId ELSE userId ]

\* The `data` createTask hands to prisma.task.create.
createTaskData(body, userId) ==
    [ title |-> body.title, description |-> body.description,
      status |-> IF Falsy(body.status) THEN "TODO" ELSE body.status,
      userId |-> userId ]

\* Variant: createTask without the `if (!title)` test.
CreateTaskNoTitleCheck(header, body) ==
    LET req == Req("createTask", header, UNDEF, body)
        auth == authenticate(header, env, now)
        userId == auth.user.userId
        created == TaskCreate(tasks, users, createTaskData(body, userId),
                              taskId(nextTaskId + 1), now)
    IN /\ IF ~auth.ok
          THEN Send(Refused(req, auth)) /\ UNCHANGED <<tasks, nextTaskId>>
          ELSE IF Falsy(userId)
          THEN /\ Send(Reply(req, auth.user, TRUE,
                       errorHandler(ApiError(401, "Authentication required"), env)))
               /\ UNCHANGED <<tasks, nextTaskId>>
          ELSE IF ~created.ok
          THEN /\ Send(Reply(req, auth.user, TRUE, errorHandler(created.error, env)))
               /\ UNCHANGED <<tasks, nextTaskId>>
          ELSE /\ nextTaskId < MaxTasks
               /\ tasks' = created.rows
               /\ nextTaskId' = nextTaskId + 1
               /\ Send(Reply(req, auth.user, TRUE,
                       Success(201, "Task created successfully", created.row)))
       /\ UNCHANGED <<users, nextUserId, now, env, pending>>

CreateTask(header, body) ==
    LET req == Req("createTask", header, UNDEF, body)
        auth == authenticate(header, env, now)
        userId == auth.user.userId
        created == TaskCreate(tasks, users, createTaskData(body, userId),
                              taskId(nextTaskId + 1), now)
    IN /\ IF ~auth.ok
          THEN Send(Refused(req, auth)) /\ UNCHANGED <<tasks, nextTaskId>>
          ELSE IF Falsy(userId)
          THEN /\ Send(Reply(req, auth.user, TRUE,
                       errorHandler(ApiError(401, "Authentication required"), env)))
               /\ UNCHANGED <<tasks, nextTaskId>>
          ELSE IF Falsy(body.title)
          THEN /\ Send(Reply(req, auth.user, TRUE,
                       errorHandler(ApiError(400, "Title is required"), env)))
               /\ UNCHANGED <<tasks, nextTaskId>>
          ELSE IF ~created.ok
          THEN /\ Send(Reply(req, auth.user, TRUE, errorHandler(created.error, env)))
               /\ UNCHANGED <<tasks, nextTaskId>>
          ELSE /\ nextTaskId < MaxTasks
               /\ tasks' = created.rows
               /\ nextTaskId' = nextTaskId + 1
               /\ Send(Reply(req, auth.user, TRUE,
                       Success(201, "Task created successfully", created.row)))
       /\ UNCHANGED <<users, nextUserId, now, env, pending>>

\* Variant: ownership is decided before existence, so an id that is not
\* stored is answered like a foreign task.
ownedTaskCheckOwnershipFirst(ts, userId, id, verb) ==
    IF Falsy(userId)
    THEN [ok |-> FALSE, error |-> ApiError(401, "Authentication required"), task |-> NoRow]
    ELSE LET found == TaskFindById(ts, id) IN
         IF \A k \in found : k.userId # userId
         THEN [ok |-> FALSE, task |-> NoRow,
               error |-> ApiError(403, "You do not have permission to " \o verb \o " this task")]
         ELSE [ok |-> TRUE, error |-> ApiError(0, ""), task |-> CHOOSE k \in found : TRUE]

\* Variant: updateTask and deleteTask without the ownership comparison.
ownedTaskCheckNoOwnerCheck(ts, userId, id, verb) ==
    IF Falsy(userId)
    THEN [ok |-> FALSE, error |-> ApiError(401, "Authentication required"), task |-> NoRow]
    ELSE LET found == TaskFindById(ts, id) IN
         IF found = {}
         THEN [ok |-> FALSE, error |-> ApiError(404, "Task not found"), task |-> NoRow]
         ELSE [ok |-> TRUE, error |-> ApiError(0, ""), task |-> CHOOSE k \in found : TRUE]

\* updateTask and deleteTask up to the ownership check: the error thrown, if any.
ownedTaskCheck(ts, userId, id, verb) ==
    IF Falsy(userId)
    THEN [ok |-> FALSE, error |-> ApiError(401, "Authentication required"), task |-> NoRow]
    ELSE LET found == TaskFindById(ts, id) IN
         IF found = {}
         THEN [ok |-> FALSE, error |-> ApiError(404, "Task not found"), task |-> NoRow]
         ELSE LET existingTask == CHOOSE k \in found : TRUE IN
              IF existingTask.userId # userId
              THEN [ok |-> FALSE, task |-> NoRow,
                    error |-> ApiError(403, "You do not have permission to " \o verb \o " this task")]
              ELSE [ok |-> TRUE, error |-> ApiError(0, ""), task |-> existingTask]

\* updateTask, up to and including `await prisma.task.findUnique`.
UpdateTaskFind(header, id, body) ==
    LET req == Req("updateTask", header, id, body)
        auth == authenticate(header, env, now)
        check == ownedTaskCheck(tasks, auth.user.userId, id, "update")
    IN /\ IF ~auth.ok
          THEN Send(Refused(req, auth)) /\ UNCHANGED pending
          ELSE IF ~check.ok
          THEN /\ Send(Reply(req, auth.user, TRUE, errorHandler(check.error, env)))
               /\ UNCHANGED pending
          ELSE /\ BagCardinality(pending) < MaxInflight
               /\ pending' = pending (+)
                     SetToBag({Suspended("updateTask", auth.user, id, body,
                                         [ title |-> check.task.title,
                                           description |-> check.task.description,
                                           status |-> check.task.status ])})
               /\ Send(Reply(req, auth.user, TRUE, Awaiting))
       /\ UNCHANGED <<users, tasks, nextUserId, nextTaskId, now, env>>

\* Variant: `field || existingTask.field` in place of `field !== undefined`.
updateTaskDataTruthy(body, existingTask) ==
    [ title |-> IF ~Falsy(body.title) THEN body.title ELSE existingTask.title,
      description |-> IF ~Falsy(body.description) THEN body.description
                      ELSE existingTask.description,
      status |-> IF ~Falsy(body.status) THEN body.status ELSE existingTask.status ]

\* The `data` updateTask hands to prisma.task.update.
updateTaskData(body, existingTask) ==
    [ title |-> IF body.title # UNDEF THEN body.title ELSE existingTask.title,
      description |-> IF body.description # UNDEF THEN body.description
                      ELSE existingTask.description,
      status |-> IF body.status # UNDEF THEN body.status ELSE existingTask.status ]

\* updateTask, from `await prisma.task.update` to the response.
UpdateTaskWrite(p) ==
    /\ p.op = "updateTask"
    /\ LET req == Req("updateTask", NoHeader, p.id, p.body)
           updated == TaskUpdate(tasks, p.id, updateTaskData(p.body, p.existing))
       IN IF updated.ok
          THEN /\ tasks' = updated.rows
               /\ Send(Reply(req, p.user, TRUE,
                       Success(200, "Task updated successfully", updated.row)))
          ELSE /\ Send(Reply(req, p.user, TRUE, errorHandler(updated.error, env)))
               /\ UNCHANGED tasks
    /\ pending' = pending (-) SetToBag({p})
    /\ UNCHANGED <<users, nextUserId, nextTaskId, now, env>>

\* deleteTask, up to and including `await prisma.task.findUnique`.
DeleteTaskFind(header, id) ==
    LET req == Req("deleteTask", header, id, NoBody)
        auth == authenticate(header, env, now)
        check == ownedTaskCheck(tasks, auth.user.userId, id, "delete")
    IN /\ IF ~auth.ok
          THEN Send(Refused(req, auth)) /\ UNCHANGED pending
          ELSE IF ~check.ok
          THEN /\ Send(Reply(req, auth.user, TRUE, errorHandler(check.error, env)))
               /\ UNCHANGED pending
          ELSE /\ BagCardinality(pending) < MaxInflight
               /\ pending' = pending (+)
                     SetToBag({Suspended("deleteTask", auth.user, id, NoBody, NoRow)})
               /\ Send(Reply(req, auth.user, TRUE, Awaiting))
       /\ UNCHANGED <<users, tasks, nextUserId, nextTaskId, now, env>>

\* deleteTask, from `await prisma.task.delete` to the response.
DeleteTaskWrite(p) ==
    /\ p.op = "deleteTask"
    /\ LET req == Req("deleteTask", NoHeader, p.id, NoBody)
           deleted == TaskDelete(tasks, p.id)
       IN IF deleted.ok
          THEN /\ tasks' = deleted.rows
               /\ Send(Reply(req, p.user, TRUE,
                       Success(200, "Task deleted successfully", NullData)))
          ELSE /\ Send(Reply(req, p.user, TRUE, errorHandler(deleted.error, env)))
               /\ UNCHANGED tasks
    /\ pending' = pending (-) SetToBag({p})
    /\ UNCHANGED <<users, nextUserId, nextTaskId, now, env>>

(***************************************************************************)
(* Task requests clients send.                                             *)
(***************************************************************************)
UserIds == {u.id : u \in users}

\* The headers of clients that have just logged in.
SessionHeaders == {Bearer(k) : k \in JustIssued(IssuedAccessTokens)}

NoSuchTask == "non-existent-task-id"
TaskIdInputs == {taskId(i) : i \in 1..nextTaskId} \cup {NoSuchTask}

\* Bodies may carry a userId, which is no field of the request types.
CreateBodies ==
    { TaskBody("A", UNDEF, UNDEF, UNDEF),
      TaskBody("A", UNDEF, UNDEF, uuid(1)),
      TaskBody(UNDEF, "d", UNDEF, UNDEF) }

UpdateBodies ==
    { TaskBody("B", UNDEF, "DONE", uuid(1)) }

DefaultCreateBody == TaskBody("A", UNDEF, UNDEF, UNDEF)
DefaultUpdateBody == TaskBody("B", UNDEF, UNDEF, UNDEF)

(***************************************************************************)
(* The browser.  The redux auth slice holds user, token and refreshToken;  *)
(* localStorage holds the items 'token' and 'refreshToken'.  null is a     *)
(* token (a user) whose fields are null.                                   *)
(***************************************************************************)
NullToken == [raw |-> NULL, sig |-> "", userId |-> "", email |-> "", iat |-> 0, exp |-> 0]
NullUser == [id |-> NULL, email |-> NULL, name |-> NULL]

\* build: which axios the interceptor is registered on and the thunks post
\* through.  retry, refreshes, sends, refreshed, loggedOut and settled
\* describe the request in progress (or the last one).
ClientState(build, user, token, refreshToken, lsToken, lsRefreshToken) ==
    [ build |-> build, user |-> user, token |-> token, refreshToken |-> refreshToken,
      lsToken |-> lsToken, lsRefreshToken |-> lsRefreshToken,
      phase |-> "idle", retry |-> FALSE, refreshes |-> 0, sends |-> 0,
      refreshed |-> "none", loggedOut |-> FALSE, settled |-> "none" ]

\* No browser takes part.
NoClient == ClientState("none", NullUser, NullToken, NullToken, NullToken, NullToken)

(***************************************************************************)
(* Specifications.                                                         *)
(***************************************************************************)
Init ==
    /\ users = {}
    /\ tasks = {}
    /\ nextUserId = 0
    /\ nextTaskId = 0
    /\ now = 0
    /\ env = TestEnv
    /\ pending = EmptyBag
    /\ resp = NoResp
    /\ client = NoClient

NextAuth ==
    \/ \E body \in RegisterBodies : RegisterFind(body)
    \/ \E p \in BagToSet(pending) : RegisterCreate(p)
    \/ \E body \in LoginBodies : Login(body)
    \/ \E body \in RefreshBodies : RefreshToken(body)
    \/ \E header \in HeaderInputs : GetProfile(header)
    \/ Tick

SpecAuth == Init /\ [][NextAuth]_vars

\* Two users have registered (a state SpecAuth reaches).
SeedUsers ==
    { [ id |-> uuid(1), email |-> "a@x", password |-> BcryptHash("pw1", "s1"),
        name |-> "Ann", createdAt |-> 0 ],
      [ id |-> uuid(2), email |-> "b@x", password |-> BcryptHash("pw1", "s1"),
        name |-> NULL, createdAt |-> 0 ] }

InitTasks ==
    /\ users = SeedUsers
    /\ tasks = {}
    /\ nextUserId = 2
    /\ nextTaskId = 0
    /\ now = 0
    /\ env = TestEnv
    /\ pending = EmptyBag
    /\ resp = NoResp
    /\ client = NoClient

\* Task traffic of logged-in (and anonymous) clients.
NextTasks ==
    \/ \E header \in SessionHeaders : GetTasks(header)
    \/ \E header \in SessionHeaders, id \in TaskIdInputs : GetTaskById(header, id)
    \/ \E header \in SessionHeaders, body \in CreateBodies : CreateTask(header, body)
    \/ \E header \in SessionHeaders, id \in TaskIdInputs, body \in UpdateBodies :
          UpdateTaskFind(header, id, body)
    \/ \E p \in BagToSet(pending) : UpdateTaskWrite(p)
    \/ \E header \in SessionHeaders, id \in TaskIdInputs : DeleteTaskFind(header, id)
    \/ \E p \in BagToSet(pending) : DeleteTaskWrite(p)
    \/ Tick

SpecTasks == InitTasks /\ [][NextTasks]_vars

\* Every protected route under every Authorization header.  The task routes
\* are asked for a task that is not stored, so that the Task table changes
\* by createTask alone.
NextGuard ==
    \/ \E header \in HeaderInputs : GetProfile(header)
    \/ \E header \in HeaderInputs : GetTasks(header)
    \/ \E header \in HeaderInputs : GetTaskById(header, NoSuchTask)
    \/ \E header \in HeaderInputs : CreateTask(header, DefaultCreateBody)
    \/ \E header \in HeaderInputs : UpdateTaskFind(header, NoSuchTask, DefaultUpdateBody)
    \/ \E header \in HeaderInputs : DeleteTaskFind(header, NoSuchTask)
    \/ Tick

SpecGuard == InitTasks /\ [][NextGuard]_vars

(***************************************************************************)
(* Token traffic: login, refresh and the guard under several               *)
(* configurations of process.env, with user rows deleted from the store.   *)
(***************************************************************************)
\* Variant: the relation without onDelete: Cascade, the Task rows stay.
UserDeleteNoCascade(us, ts, id) ==
    LET found == UserFindById(us, id) IN
    IF found = {}
    THEN [ok |-> FALSE, error |-> RecordNotFound, users |-> us, tasks |-> ts]
    ELSE [ok |-> TRUE, error |-> RecordNotFound, users |-> us \ found, tasks |-> ts]

\* prisma.user.delete({ where: { id } }): the user's Task rows go with it
\* (onDelete: Cascade).
UserDelete(us, ts, id) ==
    LET found == UserFindById(us, id) IN
    IF found = {}
    THEN [ok |-> FALSE, error |-> RecordNotFound, users |-> us, tasks |-> ts]
    ELSE [ok |-> TRUE, error |-> RecordNotFound, users |-> us \ found,
          tasks |-> {k \in ts : k.userId # id}]

\* A user row is deleted directly in the store (no route does it).
DeleteUser(id) ==
    LET deleted == UserDelete(users, tasks, id) IN
    /\ deleted.ok
    /\ users' = deleted.users
    /\ tasks' = deleted.tasks
    /\ Send(NoResp)
    /\ UNCHANGED <<nextUserId, nextTaskId, now, env, pending>>

\* Nothing in the program compares the two secrets or the two expiries.
SharedSecretEnv == [TestEnv EXCEPT !.JWT_REFRESH_SECRET = TestEnv.JWT_SECRET]
ShortRefreshEnv == [TestEnv EXCEPT !.JWT_REFRESH_EXPIRES_IN = TestEnv.JWT_EXPIRES_IN]
EnvInputs == {TestEnv, SharedSecretEnv, ShortRefreshEnv}

\* Times at which a login of seed user u can have issued a token: any time
\* so far while the row is stored, the initial time once it is deleted.
IssueTimes(u) == IF u \in users THEN 0..now ELSE {0}

HeldAccessTokens ==
    UNION { { JwtSign(TokenPayload(u), env.JWT_SECRET, env.JWT_EXPIRES_IN, i)
              : i \in IssueTimes(u) } : u \in SeedUsers }

HeldRefreshTokens ==
    UNION { { JwtSign(TokenPayload(u), env.JWT_REFRESH_SECRET, env.JWT_REFRESH_EXPIRES_IN, i)
              : i \in IssueTimes(u) } : u \in SeedUsers }

TokenHeaders == {Bearer(k) : k \in HeldAccessTokens \cup HeldRefreshTokens}

HeldRefreshBodies ==
    [refreshToken : {UndefToken, EmptyToken, GarbageToken}
                        \cup HeldRefreshTokens \cup HeldAccessTokens
                        \cup { JwtSign(TokenPayload(u), "attacker-secret",
                                       env.JWT_REFRESH_EXPIRES_IN, now) : u \in SeedUsers }]

InitTokens ==
    /\ users = SeedUsers
    /\ tasks = {}
    /\ nextUserId = 2
    /\ nextTaskId = 0
    /\ now = 0
    /\ env \in EnvInputs
    /\ pending = EmptyBag
    /\ resp = NoResp
    /\ client = NoClient

NextTokens ==
    \/ \E body \in LoginBodies : Login(body)
    \/ \E body \in HeldRefreshBodies : RefreshToken(body)
    \/ \E header \in TokenHeaders : GetProfile(header)
    \/ \E id \in UserIds : DeleteUser(id)
    \/ Tick

SpecTokens == InitTokens /\ [][NextTokens]_vars

(***************************************************************************)
(* Task requests handled one at a time: a handler that awaits its second   *)
(* store call completes before the next request arrives.                   *)
(***************************************************************************)
\* enum TaskStatus
TaskStatuses == {"TODO", "IN_PROGRESS", "DONE"}

ValidCreateBodies ==
    { TaskBody("A", UNDEF, UNDEF, UNDEF),
      TaskBody("A", "d", "DONE", uuid(1)) }

SeqUpdateBodies ==
    { TaskBody(UNDEF, UNDEF, status, UNDEF) : status \in TaskStatuses }
        \cup { TaskBody("B", UNDEF, UNDEF, UNDEF),
               TaskBody(UNDEF, NULL, UNDEF, UNDEF) }    \* description: null

NextSeq ==
    \/ /\ pending = EmptyBag
       /\ \E header \in SessionHeaders, id \in TaskIdInputs : GetTaskById(header, id)
    \/ /\ pending = EmptyBag
       /\ \E header \in SessionHeaders, body \in ValidCreateBodies : CreateTask(header, body)
    \/ /\ pending = EmptyBag
       /\ \E header \in SessionHeaders, id \in TaskIdInputs, body \in SeqUpdateBodies :
             UpdateTaskFind(header, id, body)
    \/ \E p \in BagToSet(pending) : UpdateTaskWrite(p)
    \/ /\ pending = EmptyBag
       /\ \E header \in SessionHeaders, id \in TaskIdInputs : DeleteTaskFind(header, id)
    \/ \E p \in BagToSet(pending) : DeleteTaskWrite(p)

SpecSeq == InitTasks /\ [][NextSeq]_vars

(***************************************************************************)
(* createTask under every kind of title, each followed by reads.           *)
(***************************************************************************)
CreateBodyInputs ==
    ValidCreateBodies
        \cup { TaskBody(UNDEF, "d", UNDEF, UNDEF),       \* no title
               TaskBody("", UNDEF, UNDEF, UNDEF),        \* title: ''
               TaskBody("   ", UNDEF, UNDEF, UNDEF) }    \* title: '   '

NextCreate ==
    \/ \E header \in SessionHeaders, body \in CreateBodyInputs : CreateTask(header, body)
    \/ \E header \in SessionHeaders, id \in TaskIdInputs : GetTaskById(header, id)

SpecCreate == InitTasks /\ [][NextCreate]_vars

(***************************************************************************)
(* Overlapping updateTask requests with partial bodies: each body sets one *)
(* field, the empty title included.                                        *)
(***************************************************************************)
PartialUpdateBodies ==
    { TaskBody(UNDEF, UNDEF, "DONE", UNDEF),     \* { status: 'DONE' }
      TaskBody("B",   UNDEF, UNDEF,  UNDEF),     \* { title: 'B' }
      TaskBody("",    UNDEF, UNDEF,  UNDEF) }    \* { title: '' }

\* One task is created; the updates that follow overlap on it.
NextUpdates ==
    \/ /\ tasks = {}
       /\ \E header \in SessionHeaders : CreateTask(header, DefaultCreateBody)
    \/ \E header \in SessionHeaders, id \in TaskIdInputs, body \in PartialUpdateBodies :
          UpdateTaskFind(header, id, body)
    \/ \E p \in BagToSet(pending) : UpdateTaskWrite(p)

SpecUpdates == InitTasks /\ [][NextUpdates]_vars

(***************************************************************************)
(* Task requests under interleaving while rows leave the store: tasks by   *)
(* deleteTask, users (and with them their tasks) by deletion in the store. *)
(* A client whose user row is deleted still holds its access token.        *)
(***************************************************************************)
HeldHeaders == {Bearer(k) : k \in HeldAccessTokens}

NextStore ==
    \/ \E header \in HeldHeaders : GetTasks(header)
    \/ \E header \in HeldHeaders, id \in TaskIdInputs : GetTaskById(header, id)
    \/ \E header \in HeldHeaders : CreateTask(header, DefaultCreateBody)
    \/ \E header \in HeldHeaders, id \in TaskIdInputs :
          UpdateTaskFind(header, id, DefaultUpdateBody)
    \/ \E p \in BagToSet(pending) : UpdateTaskWrite(p)
    \/ \E header \in HeldHeaders, id \in TaskIdInputs : DeleteTaskFind(header, id)
    \/ \E p \in BagToSet(pending) : DeleteTaskWrite(p)
    \/ \E id \in UserIds : DeleteUser(id)

SpecStore == InitTasks /\ [][NextStore]_vars

(***************************************************************************)
(* Registration against an empty User table, in a test and in a production *)
(* deployment.                                                             *)
(***************************************************************************)
ProductionEnv == [TestEnv EXCEPT !.NODE_ENV = "production"]
DeployEnvs == {TestEnv, ProductionEnv}

InitRegister ==
    /\ users = {}
    /\ tasks = {}
    /\ nextUserId = 0
    /\ nextTaskId = 0
    /\ now = 0
    /\ env \in DeployEnvs
    /\ pending = EmptyBag
    /\ resp = NoResp
    /\ client = NoClient

NextRegister ==
    \/ \E body \in RegisterBodies : RegisterFind(body)
    \/ \E p \in BagToSet(pending) : RegisterCreate(p)

SpecRegister == InitRegister /\ [][NextRegister]_vars

(***************************************************************************)
(* Deployments in which a signing secret is not set (undefined) or is set  *)
(* to the empty string.  Clients hold tokens that a configured deployment  *)
(* issued at time 0.  The source holds two versions of authenticate; the   *)
(* profile route is served by either.                                      *)
(***************************************************************************)
NoAccessSecretEnv == [TestEnv EXCEPT !.JWT_SECRET = UNDEF]
NoRefreshSecretEnv == [TestEnv EXCEPT !.JWT_REFRESH_SECRET = UNDEF]
NoSecretsEnv == [TestEnv EXCEPT !.JWT_SECRET = "", !.JWT_REFRESH_SECRET = ""]
ConfigEnvs == {TestEnv, NoAccessSecretEnv, NoRefreshSecretEnv, NoSecretsEnv}

ConfiguredAccessTokens ==
    { JwtSign(TokenPayload(u), TestEnv.JWT_SECRET, TestEnv.JWT_EXPIRES_IN, 0) : u \in SeedUsers }

ConfiguredRefreshTokens ==
    { JwtSign(TokenPayload(u), TestEnv.JWT_REFRESH_SECRET, TestEnv.JWT_REFRESH_EXPIRES_IN, 0)
      : u \in SeedUsers }

ConfigHeaders == {NoHeader, Bearer(GarbageToken)} \cup {Bearer(k) : k \in ConfiguredAccessTokens}

ConfigRefreshBodies ==
    [refreshToken : {UndefToken, GarbageToken} \cup ConfiguredRefreshTokens]

InitConfig ==
    /\ users = SeedUsers
    /\ tasks = {}
    /\ nextUserId = 2
    /\ nextTaskId = 0
    /\ now = 0
    /\ env \in ConfigEnvs
    /\ pending = EmptyBag
    /\ resp = NoResp
    /\ client = NoClient

NextConfig ==
    \/ \E body \in LoginBodies : Login(body)
    \/ \E body \in ConfigRefreshBodies : RefreshToken(body)
    \/ \E header \in ConfigHeaders : GetProfile(header)
    \/ \E header \in ConfigHeaders : GetProfileGeneric(header)
    \/ Tick

SpecConfig == InitConfig /\ [][NextConfig]_vars

(***************************************************************************)
(* The browser's axios interceptors (services/api.ts) and the auth slice   *)
(* (store/slices/authSlice.ts).  The source holds two builds:              *)
(*   "axios"     the interceptors are registered on the default axios and  *)
(*               the thunks post through the default axios;                *)
(*   "apiClient" the interceptors are registered on the instance apiClient *)
(*               and the thunks post through an instance of their own,     *)
(*               which has no interceptors.                                *)
(* A request and the server's answer to it are one step; each await of the *)
(* response interceptor separates two steps.                               *)
(***************************************************************************)
ClientBuilds == {"axios", "apiClient"}

\* login thunk and login.fulfilled: the tokens go to localStorage and to
\* the auth slice.
LoggedIn(build, credentials, e, t) ==
    LET data == loginOut(SeedUsers, credentials, e, t).data
    IN ClientState(build, data.user, data.accessToken, data.refreshToken,
                   data.accessToken, data.refreshToken)

\* logout thunk and logout.fulfilled.
logout(c) ==
    [c EXCEPT !.lsToken = NullToken, !.lsRefreshToken = NullToken,
              !.user = NullUser, !.token = NullToken, !.refreshToken = NullToken]

\* refreshTokens.rejected: the slice is cleared, localStorage is not touched.
refreshTokensRejected(c) ==
    [c EXCEPT !.user = NullUser, !.token = NullToken, !.refreshToken = NullToken]

\* refreshTokens thunk with its reducers: the action type the dispatch
\* resolves with, the status of the POST (0 when none was made), the JSON
\* received and the browser's state afterwards.
refreshTokens(c, us, e, t) ==
    LET body == [refreshToken |-> c.lsRefreshToken]
        out == refreshTokenOut(us, body, e, t)
    IN IF Falsy(c.lsRefreshToken.raw)
       THEN [type |-> "rejected", posted |-> FALSE, out |-> NoOut,
             state |-> refreshTokensRejected(c)]
       ELSE IF out.status = 200
       THEN [type |-> "fulfilled", posted |-> TRUE, out |-> out,
             state |-> [c EXCEPT !.lsToken = out.data.accessToken,
                                 !.lsRefreshToken = out.data.refreshToken,
                                 !.token = out.data.accessToken,
                                 !.refreshToken = out.data.refreshToken]]
       ELSE [type |-> "rejected", posted |-> TRUE, out |-> out,
             state |-> refreshTokensRejected(c)]

\* store.dispatch(refreshTokens()) rejects only when a reducer throws:
\* refreshTokens.fulfilled reads action.payload.data.accessToken.
dispatchRejects(r) == r.type = "fulfilled" /\ r.out.data = NoData

\* Request interceptor: Authorization is set when the slice holds a token.
requestHeader(c) == IF ~Falsy(c.token.raw) THEN Bearer(c.token) ELSE NoHeader

\* GET /api/tasks as the server answers it.
getTasksReply(header) ==
    LET req == Req("getTasks", header, UNDEF, NoBody)
        auth == authenticate(header, env, now)
    IN IF ~auth.ok THEN Refused(req, auth)
       ELSE Reply(req, auth.user, TRUE,
                  Success(200, UNDEF, CHOOSE found \in TaskFindMany(tasks, auth.user.userId) : TRUE))

\* Response interceptor, error handler up to its await: a 401 of a request
\* not yet retried marks the request and dispatches refreshTokens; any
\* other failure is rejected.
interceptor(c, status) ==
    IF status = 401 /\ ~c.retry
    THEN [c EXCEPT !.retry = TRUE, !.phase = "refreshing"]
    ELSE [c EXCEPT !.phase = "idle", !.settled = "rejected"]

\* What the browser does with the answer to the request (or its retry).
received(c, status) ==
    IF status = 200
    THEN [c EXCEPT !.phase = "idle", !.settled = "resolved"]
    ELSE interceptor(c, status)

\* The application sends a request through the intercepted axios.
ClientRequest ==
    /\ client.phase = "idle"
    /\ LET c == [client EXCEPT !.retry = FALSE, !.refreshes = 0, !.sends = 1,
                               !.refreshed = "none", !.loggedOut = FALSE,
                               !.settled = "none"]
           reply == getTasksReply(requestHeader(c))
       IN /\ resp' = reply
          /\ client' = received(c, reply.out.status)
    /\ UNCHANGED <<users, tasks, nextUserId, nextTaskId, now, env, pending>>

\* The interceptor's `await store.dispatch(refreshTokens())` and what
\* follows it.  In the build "axios" the POST of the thunk passes the same
\* response interceptor: its 401 is the 401 of a request not yet retried,
\* and refreshTokens is dispatched again.
ClientRefresh ==
    /\ client.phase = "refreshing"
    /\ client.refreshes < MaxRefreshes
    /\ LET r == refreshTokens(client, users, env, now)
           c == [r.state EXCEPT !.refreshes = @ + 1, !.refreshed = r.type]
       IN /\ resp' = IF r.posted
                     THEN Reply(Req("refreshToken", NoHeader, UNDEF,
                                    [refreshToken |-> client.lsRefreshToken]),
                                NoUser, TRUE, r.out)
                     ELSE resp
          /\ client' =
               IF client.build = "axios" /\ r.posted /\ r.out.status = 401
               THEN [client EXCEPT !.refreshes = @ + 1]
               ELSE IF dispatchRejects(r)
               THEN [logout(c) EXCEPT !.loggedOut = TRUE, !.phase = "idle",
                                      !.settled = "rejected"]
               ELSE IF ~Falsy(c.token.raw)
               THEN [c EXCEPT !.phase = "retrying"]
               ELSE [c EXCEPT !.phase = "idle", !.settled = "rejected"]
    /\ UNCHANGED <<users, tasks, nextUserId, nextTaskId, now, env, pending>>

\* The retry: the marked request is sent again with the new token; its
\* failure passes the response interceptor again.
ClientRetry ==
    /\ client.phase = "retrying"
    /\ LET c == [client EXCEPT !.sends = @ + 1]
           reply == getTasksReply(requestHeader(c))
       IN /\ resp' = reply
          /\ client' = received(c, reply.out.status)
    /\ UNCHANGED <<users, tasks, nextUserId, nextTaskId, now, env, pending>>

\* The user presses Logout.
ClientLogout ==
    /\ client.phase = "idle"
    /\ client' = [logout(client) EXCEPT !.retry = FALSE, !.refreshes = 0, !.sends = 0,
                                        !.refreshed = "none", !.settled = "none"]
    /\ UNCHANGED <<users, tasks, nextUserId, nextTaskId, now, env, pending, resp>>

\* The page is loaded again: initialState reads the tokens from
\* localStorage, the user is null.
ClientReload ==
    /\ client.phase = "idle"
    /\ client' = ClientState(client.build, NullUser, client.lsToken, client.lsRefreshToken,
                             client.lsToken, client.lsRefreshToken)
    /\ UNCHANGED <<users, tasks, nextUserId, nextTaskId, now, env, pending, resp>>

ClientTick ==
    /\ now < MaxClientTime
    /\ now' = now + 1
    /\ UNCHANGED <<users, tasks, nextUserId, nextTaskId, env, pending, resp, client>>

\* A user has logged in at time 0, in either build.
InitClient ==
    /\ users = SeedUsers
    /\ tasks = {}
    /\ nextUserId = 2
    /\ nextTaskId = 0
    /\ now = 0
    /\ env \in {TestEnv, ShortRefreshEnv}
    /\ pending = EmptyBag
    /\ resp = NoResp
    /\ client \in { LoggedIn(build, [email |-> "a@x", password |-> "pw1"], env, 0)
                    : build \in ClientBuilds }

NextClient ==
    \/ ClientRequest
    \/ ClientRefresh
    \/ ClientRetry
    \/ ClientLogout
    \/ ClientReload
    \/ ClientTick

SpecClient == InitClient /\ [][NextClient]_vars

(***************************************************************************)
(* Properties.  resp is the response of the step that led to the state, so *)
(* a state predicate over resp speaks of the request just answered and the *)
(* store after it; an action formula speaks of the store before and after. *)
(***************************************************************************)

\* C1: for every stored task T and every authenticated user who is not T's
\* owner, getTaskById on T's id answers 403 and the response carries no data
\* and none of T's field values.
C1_ForeignTaskReadRefused ==
    \A T \in tasks :
        ( /\ resp.req.op = "getTaskById"
          /\ resp.ran
          /\ resp.req.id = T.id
          /\ resp.user.userId # T.userId )
        => /\ resp.out.status = 403
           /\ resp.out.data = NoData
           /\ resp.out.error = UNDEF
           /\ resp.out.message \notin {T.id, T.title, T.description, T.status, T.userId}

C1_Witness ==
    \E T \in tasks :
        /\ resp.req.op = "getTaskById"
        /\ resp.ran
        /\ resp.req.id = T.id
        /\ resp.user.userId # T.userId

\* C2: an updateTask or deleteTask by an authenticated user on the id of a
\* stored task owned by someone else answers 403 in that very step, changes
\* no row of the Task table and schedules no write.
C2_ForeignTaskWriteRefused ==
    [][ \A T \in tasks :
          ( /\ resp'.req.op \in {"updateTask", "deleteTask"}
            /\ resp'.ran
            /\ resp'.req.id = T.id
            /\ resp'.user.userId # T.userId )
          => /\ resp'.out.status = 403
             /\ tasks' = tasks
             /\ pending' = pending ]_vars

C2_Witness ==
    \E T \in tasks :
        /\ resp.req.op \in {"updateTask", "deleteTask"}
        /\ resp.ran
        /\ resp.req.id = T.id
        /\ resp.user.userId # T.userId
        /\ resp.out.status = 403

\* C3: no step changes the userId of a stored task, and a row that appears
\* was created by createTask with the userId of the authenticated requester,
\* a stored user, whatever userId the request body carried.
C3_OwnerIsCreator ==
    [][ /\ \A T \in tasks, N \in tasks' : N.id = T.id => N.userId = T.userId
        /\ \A N \in tasks' :
              (\A T \in tasks : T.id # N.id)
              => /\ resp'.req.op = "createTask"
                 /\ N.userId = resp'.user.userId
                 /\ N.userId \in {u.id : u \in users} ]_vars

C3_Witness ==
    /\ resp.req.op = "createTask"
    /\ resp.out.status = 201
    /\ resp.req.body.userId \notin {UNDEF, resp.user.userId}
    /\ \E T \in tasks : T.id = resp.out.data.id /\ T.userId = resp.user.userId

\* C4: getTasks for an authenticated user answers 200 with a list that holds
\* each stored task of that user once, holds nothing else, and is ordered by
\* createdAt, newest first.
C4_ListIsOwnTasksNewestFirst ==
    (resp.req.op = "getTasks" /\ resp.ran)
    => LET found == resp.out.data
           own == {T \in tasks : T.userId = resp.user.userId}
       IN /\ resp.out.status = 200
          /\ DOMAIN found = 1..Cardinality(own)
          /\ {found[i] : i \in DOMAIN found} = own
          /\ \A i, j \in DOMAIN found : i < j => found[i].createdAt >= found[j].createdAt

C4_Witness ==
    /\ resp.req.op = "getTasks"
    /\ resp.out.status = 200
    /\ DOMAIN resp.out.data # {}
    /\ \E T \in tasks : T.userId # resp.user.userId

\* C5: every register request with an email and a password is answered 201
\* or 409, also when it ran concurrently with a register of the same email.
C5_RegisterAnswers201Or409 ==
    ( /\ resp.req.op = "register"
      /\ resp.out.status # 0
      /\ ~Falsy(resp.req.body.email)
      /\ ~Falsy(resp.req.body.password) )
    => resp.out.status \in {201, 409}

\* C6: in every reachable state, interleavings of register included, no two
\* rows of the User table have the same email.
C6_EmailUnique ==
    \A u, v \in users : u.email = v.email => u = v

C6_Witness ==
    /\ resp.req.op = "register"
    /\ resp.out.status = 400
    /\ resp.out.error = UniqueViolation.message
    /\ \E u \in users : u.email = resp.req.body.email

\* C7: a login with an email and a password that match no stored user, be it
\* that the email is unknown or that the password is wrong, gets one and the
\* same response: 401 "Invalid email or password" and nothing else.
C7_LoginFailuresIndistinguishable ==
    ( /\ resp.req.op = "login"
      /\ ~Falsy(resp.req.body.email)
      /\ ~Falsy(resp.req.body.password)
      /\ \A u \in users :
            u.email = resp.req.body.email
            => \A s \in Salts : u.password # BcryptHash(resp.req.body.password, s) )
    => /\ resp.out.status = 401
       /\ resp.out.success = FALSE
       /\ resp.out.message = "Invalid email or password"
       /\ resp.out.error = UNDEF
       /\ resp.out.data = NoData

C7_Witness ==
    /\ resp.req.op = "login"
    /\ resp.out.status = 401
    /\ \E u \in users : u.email = resp.req.body.email

\* C8: a login that follows a successful register with the same email and
\* password answers 200 with an access token and a refresh token, both
\* non-empty, whose claims carry the id and email of the user just created;
\* and no step removes or changes a User row.
C8_RegisterThenLogin ==
    [][ /\ \A u \in users : u \in users'
        /\ ( /\ resp.req.op = "register"
             /\ resp.out.status = 201
             /\ resp'.req.op = "login"
             /\ resp'.req.body.email = resp.req.body.email
             /\ resp'.req.body.password = resp.req.body.password )
           => LET created == resp.out.data
                  d == resp'.out.data
              IN /\ resp'.out.status = 200
                 /\ created.email = resp.req.body.email
                 /\ d.accessToken.raw = "jwt"
                 /\ d.refreshToken.raw = "jwt"
                 /\ d.accessToken.userId = created.id
                 /\ d.accessToken.email = created.email
                 /\ d.refreshToken.userId = created.id
                 /\ d.refreshToken.email = created.email ]_vars

C8_Witness ==
    /\ resp.req.op = "login"
    /\ resp.out.status = 200
    /\ \E u \in users :
          /\ u.id = resp.out.data.accessToken.userId
          /\ u.email = resp.req.body.email

\* C9: no response of register, login, refreshToken or getProfile has a field
\* named password, and none of its values (message, error, the fields of its
\* data, the claims readable in its tokens) is a stored password hash or the
\* password the request submitted.
C9_NoPasswordInResponses ==
    resp.req.op \in {"register", "login", "refreshToken", "getProfile"}
    => LET out == resp.out
           d == out.data
           claims(k) == {k.userId, k.email}
           fields(r) == {r[f] : f \in DOMAIN r \ {"createdAt"}}
           sent ==
               {out.message, out.error} \cup
               ( IF ~out.success THEN {}
                 ELSE IF resp.req.op = "login"
                 THEN fields(d.user) \cup claims(d.accessToken) \cup claims(d.refreshToken)
                 ELSE IF resp.req.op = "refreshToken"
                 THEN claims(d.accessToken) \cup claims(d.refreshToken)
                 ELSE fields(d) )
           submitted ==
               IF resp.req.op \in {"register", "login"} /\ ~Falsy(resp.req.body.password)
               THEN {resp.req.body.password} ELSE {}
       IN /\ sent \cap ({u.password : u \in users} \cup submitted) = {}
          /\ "password" \notin DOMAIN d
          /\ (out.success /\ resp.req.op = "login") => "password" \notin DOMAIN d.user

C9_Witness ==
    /\ resp.req.op = "register"
    /\ resp.out.status = 201
    /\ \E u \in users : u.id = resp.out.data.id /\ ~Falsy(u.password)

\* C10: on a protected route the handler runs, with an identity attached,
\* only if the Authorization header is "Bearer <token>" with a token signed
\* with the access secret and not expired, and the identity is the userId
\* and email of the token's claims; a request with no header, without the
\* "Bearer " prefix or with an empty token is answered 401 and the handler
\* does not run.
C10_GuardAdmitsOnlyValidBearer ==
    resp.req.op \in {"getProfile", "getTasks", "getTaskById",
                     "createTask", "updateTask", "deleteTask"}
    => LET h == resp.req.header IN
       /\ (resp.ran \/ resp.user # NoUser)
          => /\ h.present
             /\ h.scheme = "Bearer"
             /\ h.words # <<>>
             /\ LET k == h.words[1] IN
                /\ k.raw = "jwt"
                /\ k.sig = env.JWT_SECRET
                /\ now < k.exp
                /\ resp.user = [userId |-> k.userId, email |-> k.email]
       /\ (~h.present \/ h.scheme # "Bearer" \/ h.words = <<>> \/ h.words[1].raw = "")
          => /\ resp.out.status = 401
             /\ ~resp.ran
             /\ resp.user = NoUser

C10_Witness ==
    /\ resp.req.op = "getProfile"
    /\ resp.ran
    /\ resp.user # NoUser
    /\ resp.out.status = 200

\* C11: under every configuration of the two secrets, the guard answers 401
\* to a token that generateRefreshToken issued and does not run the handler,
\* and refreshToken answers 401 to a token that generateAccessToken issued.
C11_TokenKindsNotInterchangeable ==
    /\ ( /\ resp.req.op = "getProfile"
         /\ resp.req.header.words # <<>>
         /\ resp.req.header.words[1] \in HeldRefreshTokens )
       => (resp.out.status = 401 /\ ~resp.ran)
    /\ ( /\ resp.req.op = "refreshToken"
         /\ resp.req.body.refreshToken \in HeldAccessTokens )
       => resp.out.status = 401

\* C12: a Bearer token signed with the access secret whose expiry has
\* elapsed is refused by the guard with 401 and the message "Token expired".
C12_ExpiredTokenReason ==
    ( /\ resp.req.op \in {"getProfile", "getTasks", "getTaskById",
                          "createTask", "updateTask", "deleteTask"}
      /\ resp.req.header.present
      /\ resp.req.header.scheme = "Bearer"
      /\ resp.req.header.words # <<>>
      /\ resp.req.header.words[1].raw = "jwt"
      /\ resp.req.header.words[1].sig = env.JWT_SECRET
      /\ now >= resp.req.header.words[1].exp )
    => (resp.out.status = 401 /\ resp.out.message = "Token expired")

\* C13: refreshToken answers 400 to a missing or empty token; else 401 to a
\* token that does not verify under the refresh secret (bad signature or
\* expired); else 404 when no stored user has the token's userId; else 200
\* with an access and a refresh token signed now for that user's id and
\* email.  A response other than 200 carries no tokens.
C13_RefreshClassification ==
    resp.req.op = "refreshToken"
    => LET k == resp.req.body.refreshToken
           out == resp.out
           verified == /\ k.raw = "jwt"
                       /\ k.sig = env.JWT_REFRESH_SECRET
                       /\ now < k.exp
           owner == {u \in users : u.id = k.userId}
       IN /\ out.status = ( IF k.raw \in {UNDEF, NULL, ""} THEN 400
                            ELSE IF ~verified THEN 401
                            ELSE IF owner = {} THEN 404
                            ELSE 200 )
          /\ out.status # 200 => (out.data = NoData /\ ~out.success)
          /\ out.status = 200
             => \A u \in owner :
                   /\ out.data.accessToken =
                          JwtSign([userId |-> u.id, email |-> u.email],
                                  env.JWT_SECRET, env.JWT_EXPIRES_IN, now)
                   /\ out.data.refreshToken =
                          JwtSign([userId |-> u.id, email |-> u.email],
                                  env.JWT_REFRESH_SECRET, env.JWT_REFRESH_EXPIRES_IN, now)

C13_Witness ==
    /\ resp.req.op = "refreshToken"
    /\ resp.out.status = 404
    /\ resp.req.body.refreshToken \in HeldRefreshTokens
    /\ now < resp.req.body.refreshToken.exp

C15_RefreshedTokensDiffer ==
    [][ ( /\ resp.req.op = "login"
          /\ resp.out.status = 200
          /\ resp'.req.op = "refreshToken"
          /\ resp'.out.status = 200
          /\ resp'.req.body.refreshToken = resp.out.data.refreshToken )
        => /\ resp'.out.data.accessToken # resp.out.data.accessToken
           /\ resp'.out.data.refreshToken # resp.out.data.refreshToken ]_vars

\* C16: with requests handled one at a time, getTaskById, updateTask and
\* deleteTask by an authenticated user U on id i classify alike: 404 exactly
\* when no task with id i is stored, 403 exactly when one is stored and
\* owned by another user, and otherwise success: 200 at once for
\* getTaskById, and for updateTask and deleteTask the store write that
\* follows and answers 200.  An id that is not stored is never answered 403.
C16_UniformClassification ==
    [][ /\ ( /\ resp'.req.op \in {"getTaskById", "updateTask", "deleteTask"}
             /\ resp'.req.header # NoHeader
             /\ resp'.ran )
           => LET found == {T \in tasks : T.id = resp'.req.id}
                  owned == {T \in found : T.userId = resp'.user.userId}
                  status == resp'.out.status
              IN /\ status = 404 <=> found = {}
                 /\ status = 403 <=> (found # {} /\ owned = {})
                 /\ owned # {}
                    <=> IF resp'.req.op = "getTaskById"
                        THEN status = 200
                        ELSE resp'.out = Awaiting /\ pending' # EmptyBag
        /\ ( /\ resp'.req.op \in {"updateTask", "deleteTask"}
             /\ resp'.req.header = NoHeader )
           => /\ resp'.out.status = 200
              /\ resp.out = Awaiting
              /\ resp.req.op = resp'.req.op
              /\ resp.req.id = resp'.req.id
              /\ resp.user = resp'.user ]_vars

C16_Witness ==
    /\ resp.req.op = "deleteTask"
    /\ resp.req.header = NoHeader
    /\ resp.out.status = 200
    /\ \E T \in tasks : T.userId # resp.user.userId

C18_PartialUpdate ==
    [][ ( /\ resp'.req.op = "updateTask"
          /\ resp'.req.header = NoHeader )
        => LET b == resp'.req.body
               new == resp'.out.data
           IN /\ resp'.out.status = 200
              /\ \E old \in tasks :
                    /\ old.id = resp'.req.id
                    /\ old.userId = resp'.user.userId
                    /\ tasks' = (tasks \ {old}) \cup {new}
                    /\ new.title = (IF b.title = UNDEF THEN old.title ELSE b.title)
                    /\ new.description = (IF b.description = UNDEF THEN old.description
                                          ELSE b.description)
                    /\ new.status = (IF b.status = UNDEF THEN old.status ELSE b.status)
                    /\ new.id = old.id
                    /\ new.userId = old.userId
                    /\ new.createdAt = old.createdAt ]_vars

C18_Witness ==
    /\ resp.req.op = "updateTask"
    /\ resp.out.status = 200
    /\ resp.req.body.status = "IN_PROGRESS"
    /\ resp.req.body.title = UNDEF
    /\ resp.out.data.title = "B"
    /\ resp.out.data.description = "d"
    /\ resp.out.data.status = "IN_PROGRESS"

\* C19: createTask by an authenticated user with a missing or empty title
\* answers 400 "Title is required" and leaves the Task table as it was.
C19_TitleRequired ==
    [][ ( /\ resp'.req.op = "createTask"
          /\ resp'.ran
          /\ resp'.req.body.title \in {UNDEF, ""} )
        => /\ resp'.out.status = 400
           /\ resp'.out.message = "Title is required"
           /\ tasks' = tasks
           /\ nextTaskId' = nextTaskId ]_vars

C19_Witness ==
    /\ resp.req.op = "createTask"
    /\ resp.ran
    /\ resp.req.body.title = ""
    /\ resp.out.status = 400
    /\ tasks # {}

\* C20: createTask by an authenticated user with a title of three spaces
\* answers 400 and leaves the Task table as it was.
C20_BlankTitleRefused ==
    [][ ( /\ resp'.req.op = "createTask"
          /\ resp'.ran
          /\ resp'.req.body.title = "   " )
        => /\ resp'.out.status = 400
           /\ tasks' = tasks ]_vars

\* C21: in every reachable state every stored task has a non-empty title,
\* whatever createTask and updateTask requests were made, an updateTask
\* whose body sets title to the empty string included.
C21_StoredTitleNonEmpty ==
    \A T \in tasks : T.title \notin {"", UNDEF, NULL}

\* C26: under every interleaving of updateTask requests on one task, the
\* store write of an updateTask that answers 200 leaves each field its body
\* omits with the value stored just before the write.
C26_OmittedFieldsKept ==
    [][ ( /\ resp'.req.op = "updateTask"
          /\ resp'.req.header = NoHeader
          /\ resp'.out.status = 200 )
        => \E old \in tasks :
              LET b == resp'.req.body
                  new == resp'.out.data
              IN /\ old.id = resp'.req.id
                 /\ new \in tasks'
                 /\ b.title = UNDEF => new.title = old.title
                 /\ b.description = UNDEF => new.description = old.description
                 /\ b.status = UNDEF => new.status = old.status ]_vars

\* C22: a deleteTask by the owner that answers 200 removes the row of that
\* id and no other row; an id that was given out and has no row never gets
\* a row again; and every request that arrives for such an id from an
\* authenticated caller is answered 404 by getTaskById, updateTask and
\* deleteTask, while getTasks lists no task of that id.
C22_DeletedTaskStaysGone ==
    [][ /\ ( /\ resp'.req.op = "deleteTask"
             /\ resp'.out.status = 200 )
           => \E T \in tasks :
                 /\ T.id = resp'.req.id
                 /\ T.userId = resp'.user.userId
                 /\ tasks' = tasks \ {T}
                 /\ \A k \in tasks' : k.id # T.id
        /\ \A i \in 1..nextTaskId :
              TaskFindById(tasks, taskId(i)) = {}
              => /\ TaskFindById(tasks', taskId(i)) = {}
                 /\ ( /\ resp'.req.op \in {"getTaskById", "updateTask", "deleteTask"}
                      /\ resp'.req.header # NoHeader
                      /\ resp'.ran
                      /\ resp'.req.id = taskId(i) )
                    => /\ resp'.out.status = 404
                       /\ resp'.out.data = NoData
                       /\ pending' = pending
                 /\ ( /\ resp'.req.op = "getTasks"
                      /\ resp'.out.status = 200 )
                    => \A j \in DOMAIN resp'.out.data :
                          resp'.out.data[j].id # taskId(i) ]_vars

\* The owner reads the id it deleted while its other task is still stored
\* (no user row was deleted, so the row left by deleteTask).
C22_Witness ==
    /\ users = SeedUsers
    /\ resp.req.op = "getTaskById"
    /\ resp.ran
    /\ resp.req.id = taskId(1)
    /\ resp.out.status = 404
    /\ \E T \in tasks : T.id = taskId(2) /\ T.userId = resp.user.userId
    /\ TaskFindById(tasks, taskId(1)) = {}

\* C23: the deletion of a user row removes exactly the tasks of that user;
\* in every reachable state the userId of each stored task is the id of a
\* stored user; getTaskById on an id whose row is gone answers 404 to every
\* authenticated caller; and a createTask with a valid token of a user whose
\* row is deleted stores no task.
C23_CascadeAndForeignKey ==
    [][ /\ users' # users
           => \E u \in users :
                 /\ users' = users \ {u}
                 /\ tasks' = {k \in tasks : k.userId # u.id}
        /\ \A T \in tasks' : UserFindById(users', T.userId) # {}
        /\ ( /\ resp'.req.op = "getTaskById"
             /\ resp'.ran
             /\ TaskFindById(tasks', resp'.req.id) = {} )
           => resp'.out.status = 404
        /\ ( /\ resp'.req.op = "createTask"
             /\ resp'.ran
             /\ UserFindById(users, resp'.user.userId) = {} )
           => /\ tasks' = tasks
              /\ nextTaskId' = nextTaskId
              /\ resp'.out.status \notin {200, 201} ]_vars

\* A client of a deleted user, whose task went with the user row, asks for
\* a new task.
C23_Witness ==
    /\ resp.req.op = "createTask"
    /\ resp.ran
    /\ resp.req.body.title = "A"
    /\ UserFindById(users, resp.user.userId) = {}
    /\ nextTaskId >= 1
    /\ tasks = {}
    /\ resp.out.status = 400

\* C27: under every interleaving of requests, every response of updateTask
\* and of deleteTask has a status among 200, 401, 403 and 404.
C27_WriteStatuses ==
    ( /\ resp.req.op \in {"updateTask", "deleteTask"}
      /\ resp.out # Awaiting )
    => resp.out.status \in {200, 401, 403, 404}

\* C24: a register request with a missing or empty email or password is
\* answered 400 on arrival, whether or not its email is stored; else a
\* request whose email has a stored user on arrival is answered 409; and
\* every register step that does not answer 201 leaves the User table, the
\* stored password hashes included, as it was.
C24_RegisterCheckOrder ==
    [][ resp'.req.op = "register"
        => LET b == resp'.req.body
               arrives == BagCardinality(pending') >= BagCardinality(pending)
           IN /\ ( arrives /\ (Falsy(b.email) \/ Falsy(b.password)) )
                 => /\ resp'.out.status = 400
                    /\ resp'.out.message = "Email and password are required"
                    /\ pending' = pending
              /\ ( /\ arrives
                   /\ ~(Falsy(b.email) \/ Falsy(b.password))
                   /\ UserFindByEmail(users, b.email) # {} )
                 => /\ resp'.out.status = 409
                    /\ pending' = pending
              /\ resp'.out.status # 201
                 => /\ users' = users
                    /\ nextUserId' = nextUserId ]_vars

\* An empty password with the email of a stored user: 400, not 409.
C24_Witness ==
    /\ resp.req.op = "register"
    /\ resp.req.body.email = "a@x"
    /\ resp.req.body.password = ""
    /\ UserFindByEmail(users, "a@x") # {}
    /\ resp.out.status = 400

\* C25: in a production deployment no response carries the diagnostic error
\* field, so no text of a store error reaches the client.
C25_NoDiagnosticsInProduction ==
    env.NODE_ENV = "production" => resp.out.error = UNDEF

\* C28: when a secret the operation needs is not configured the response is
\* 500 and holds no token: a login with valid credentials and a
\* refreshToken with a valid token of a stored user when either secret is
\* missing, a refreshToken with any token when the refresh secret is
\* missing, and a protected request with a Bearer token when the access
\* secret is missing.
C28_MissingSecretIs500 ==
    LET b == resp.req.body
        missingAccess == Falsy(env.JWT_SECRET)
        missingRefresh == Falsy(env.JWT_REFRESH_SECRET)
        failed == resp.out.status = 500 /\ resp.out.data = NoData
    IN /\ ( /\ resp.req.op = "login"
            /\ missingAccess \/ missingRefresh
            /\ \E u \in users : u.email = b.email /\ BcryptCompare(b.password, u.password) )
          => failed
       /\ ( /\ resp.req.op = "refreshToken"
            /\ ~Falsy(b.refreshToken.raw)
            /\ missingRefresh )
          => failed
       /\ ( /\ resp.req.op = "refreshToken"
            /\ missingAccess
            /\ ~missingRefresh
            /\ JwtVerify(b.refreshToken, env.JWT_REFRESH_SECRET, now).ok
            /\ UserFindById(users, b.refreshToken.userId) # {} )
          => failed
       /\ ( /\ resp.req.op = "getProfile"
            /\ StartsWithBearer(resp.req.header)
            /\ ~Falsy(resp.req.header.words[1].raw)
            /\ missingAccess )
          => failed

\* C29: a request that fails with 401 causes at most one dispatch of
\* refreshTokens and is sent at most twice (once and one retry), and a retry
\* is sent only after a refresh.
C29_OneRefreshOneRetry ==
    /\ client.refreshes <= 1
    /\ client.sends <= 2
    /\ client.sends = 2 => client.refreshes = 1

\* C30: when the refresh that a 401 triggered has failed and the request is
\* settled, logout was dispatched, the auth slice holds null for user, token
\* and refreshToken, and localStorage holds neither 'token' nor
\* 'refreshToken'.
C30_FailedRefreshLogsOut ==
    ( /\ client.phase = "idle"
      /\ client.refreshed = "rejected" )
    => /\ client.loggedOut
       /\ client.user = NullUser
       /\ client.token = NullToken
       /\ client.refreshToken = NullToken
       /\ client.lsToken = NullToken
       /\ client.lsRefreshToken = NullToken

====
